---- MODULE Spec2Model ----
(***************************************************************************)
(* Model of the two tracking scripts ALL.py and KCF.py.  One invocation of *)
(* main() is a straight line of calls into the vision library followed by  *)
(* the per-frame loop; the library, the video source, the user and the     *)
(* file system are the environment.  The output file outlives an           *)
(* invocation, so a behaviour is a series of invocations over one file.    *)
(***************************************************************************)
EXTENDS Integers, Sequences, FiniteSets, TLC

\* ---------------------------------------------------------------- bounds
MaxFrames == 3      \* longest video source, in readable frames
MaxRuns == 2        \* invocations of the script in one behaviour

\* ------------------------------------------------------------ text values
\* A Python str is a sequence of one-character strings.
LowerToUpper ==
    [c \in {"a", "b", "c", "f", "i", "k", "l", "m", "r", "s", "t"} |->
        CASE c = "a" -> "A" [] c = "b" -> "B" [] c = "c" -> "C"
          [] c = "f" -> "F" [] c = "i" -> "I" [] c = "k" -> "K"
          [] c = "l" -> "L" [] c = "m" -> "M" [] c = "r" -> "R"
          [] c = "s" -> "S" [] c = "t" -> "T"]

\* str.upper()
Upper(s) ==
    [i \in 1..Len(s) |->
        IF s[i] \in DOMAIN LowerToUpper THEN LowerToUpper[s[i]] ELSE s[i]]

BOOSTING == <<"B", "O", "O", "S", "T", "I", "N", "G">>
MIL == <<"M", "I", "L">>
KCF == <<"K", "C", "F">>
TLD == <<"T", "L", "D">>
MEDIANFLOW == <<"M", "E", "D", "I", "A", "N", "F", "L", "O", "W">>
MOSSE == <<"M", "O", "S", "S", "E">>
CSRT == <<"C", "S", "R", "T">>

TRACKER_TYPES == <<BOOSTING, MIL, KCF, TLD, MEDIANFLOW, MOSSE, CSRT>>

Range(s) == {s[i] : i \in 1..Len(s)}

\* ------------------------------------------------ the installed library
\* top: the names N with cv2.TrackerN_create; legacy: those with
\* cv2.legacy.TrackerN_create (no cv2.legacy at all when empty).
Libraries ==
    { [top |-> Range(TRACKER_TYPES), legacy |-> {}],
      [top |-> {MIL, KCF, CSRT}, legacy |-> Range(TRACKER_TYPES)],
      [top |-> {MIL}, legacy |-> {KCF}],
      [top |-> {MIL}, legacy |-> {}] }

None == <<>>

\* ----------------------------------------------------------- the factory
\* ALL.py create_tracker_by_name: the handle, or None
create_tracker_by_name(tracker_type, lib) ==
    LET t == Upper(tracker_type) IN
    IF t \in Range(TRACKER_TYPES)
    THEN IF t \in lib.top THEN <<"cv2", t>> ELSE None
    ELSE None

\* KCF.py create_tracker: the handle, or None
create_tracker(tracker_type, lib) ==
    LET t == Upper(tracker_type) IN
    IF t = KCF
    THEN IF KCF \in lib.top THEN <<"cv2", KCF>>
         ELSE IF KCF \in lib.legacy THEN <<"cv2.legacy", KCF>>
         ELSE None
    ELSE None

\* --------------------------------------------------------------- numbers
\* A float of the library is a fraction n/d, d > 0.
Float(n, d) == [n |-> n, d |-> d]

\* int(v) rounding down instead of toward zero
MutIntFloor(v) ==
    v.n \div v.d

\* int(v): truncation toward zero
IntTrunc(v) ==
    IF v.n >= 0 THEN v.n \div v.d ELSE -((-v.n) \div v.d)

\* cv2.waitKey(1) & 0xFF
LowByte(k) == k % 256

\* ------------------------------------------------------ environment sets
\* SELECTED_INDEX values tried in ALL.py (0..6 are the documented ones)
Indexes == (-1)..7

\* TRACKER_TYPE values tried in KCF.py
TypeNames == {KCF, <<"k", "c", "f">>, <<"K", "c", "f">>, CSRT, <<"m", "i", "l">>, <<>>}

\* boxes the ROI selector can return (integers)
RoiBoxes == { <<0, 0, 0, 0>>, <<10, 20, 0, 5>>, <<10, 20, 5, 0>>, <<10, 20, 30, 40>> }

\* boxes tracker.update can return (floats)
UpdateBoxes ==
    { <<Float(21, 2), Float(20, 1), Float(61, 2), Float(40, 1)>>,
      <<Float(-3, 2), Float(-1, 2), Float(59, 2), Float(-1, 1)>> }

\* values cv2.waitKey(1) can return: no esc, ESC, ESC with high bits, 'q'
Keys == {-1, 27, 283, 113}

\* ------------------------------------------------------------ file lines
\* A line of the output file: literal text pieces, then numeric fields
\* (joined by ", " in the file).
TextLine(t) == [text |-> t, fields |-> <<>>]
DataLine(f) == [text |-> <<>>, fields |-> f]

ColumnHeader == TextLine(<<"Frame_ID, X, Y, W, H">>)
AlgorithmHeader(name) == TextLine(<<"Algorithm: ">> \o name)

NoFile == [exists |-> FALSE, lines |-> <<>>]

VARIABLES
    script,          \* "ALL" or "KCF": which script is run
    SELECTED_INDEX,  \* ALL.py configuration
    TRACKER_TYPE,    \* KCF.py configuration
    cv2lib,          \* the installed library
    run,             \* number of the current invocation
    pc,              \* position of main()
    tracker_name,    \* ALL.py: tracker_name; KCF.py: TRACKER_TYPE
    tracker,         \* handle returned by the factory, None if none
    video,           \* "none", "failed", "opened", "released"
    framesRead,      \* frames video.read() has delivered
    roi,             \* box returned by selectROI
    ok,              \* result flag of the last tracker.update
    bbox,            \* box of the last tracker.update
    esc,             \* whether the last key poll compared equal to 27 (ESC)
    windows,         \* display windows that are open
    f_out,           \* "none", "open", "closed"
    frame_id,        \* frame counter of the loop
    trackerLog,      \* calls received by the tracker, in order
    written,         \* lines written through f_out by this invocation
    file,            \* the output file on disk
    fileAtStart      \* the output file as the invocation found it

config == <<script, SELECTED_INDEX, TRACKER_TYPE, cv2lib>>
proc == <<pc, tracker_name, tracker, video, framesRead, roi, ok, bbox, esc,
          windows, f_out, frame_id, trackerLog, written>>
vars == <<config, run, proc, file, fileAtStart>>

\* --------------------------------------------------------- initial state
\* module level of the scripts: the configuration; nothing has run yet
Init ==
    /\ script \in {"ALL", "KCF"}
    /\ IF script = "ALL"
       THEN SELECTED_INDEX \in Indexes /\ TRACKER_TYPE = None
       ELSE SELECTED_INDEX = 0 /\ TRACKER_TYPE \in TypeNames
    /\ cv2lib \in Libraries
    /\ run = 1
    /\ pc = "create"
    /\ tracker_name = None
    /\ tracker = None
    /\ video = "none"
    /\ framesRead = 0
    /\ roi = <<0, 0, 0, 0>>
    /\ ok = TRUE
    /\ bbox = <<Float(0, 1), Float(0, 1), Float(0, 1), Float(0, 1)>>
    /\ esc = FALSE
    /\ windows = {}
    /\ f_out = "none"
    /\ frame_id = 0
    /\ trackerLog = <<>>
    /\ written = <<>>
    /\ file = NoFile
    /\ fileAtStart = NoFile

\* name of the display window of the script
WindowName == IF script = "ALL" THEN "Tracker" ELSE "KCF Tracker"

\* ALL.py main, step 1: the algorithm name for SELECTED_INDEX
SelectedName ==
    IF 0 <= SELECTED_INDEX /\ SELECTED_INDEX < Len(TRACKER_TYPES)
    THEN TRACKER_TYPES[SELECTED_INDEX + 1]
    ELSE KCF

\* main without the exit on a None tracker
MutCreateTrackerNoExit ==
    /\ pc = "create"
    /\ tracker_name' = IF script = "ALL" THEN SelectedName ELSE TRACKER_TYPE
    /\ tracker' = IF script = "ALL"
                  THEN create_tracker_by_name(tracker_name', cv2lib)
                  ELSE create_tracker(tracker_name', cv2lib)
    /\ pc' = "open_video"
    /\ UNCHANGED <<config, run, video, framesRead, roi, ok, bbox, esc, windows,
                   f_out, frame_id, trackerLog, file, written, fileAtStart>>

\* main: the tracker is created; sys.exit() when the factory returns None
CreateTracker ==
    /\ pc = "create"
    /\ tracker_name' = IF script = "ALL" THEN SelectedName ELSE TRACKER_TYPE
    /\ tracker' = IF script = "ALL"
                  THEN create_tracker_by_name(tracker_name', cv2lib)
                  ELSE create_tracker(tracker_name', cv2lib)
    /\ pc' = IF tracker' = None THEN "exited" ELSE "open_video"
    /\ UNCHANGED <<config, run, video, framesRead, roi, ok, bbox, esc, windows,
                   f_out, frame_id, trackerLog, file, written, fileAtStart>>

\* main without the exit on a source that is not opened
MutOpenVideoNoExit ==
    /\ pc = "open_video"
    /\ \E opened \in BOOLEAN :
          /\ video' = IF opened THEN "opened" ELSE "failed"
          /\ pc' = "read_first"
    /\ UNCHANGED <<config, run, tracker_name, tracker, framesRead, roi, ok, bbox,
                   esc, windows, f_out, frame_id, trackerLog, file, written, fileAtStart>>

\* main: cv2.VideoCapture(video_source); sys.exit() when it is not opened
OpenVideo ==
    /\ pc = "open_video"
    /\ \E opened \in BOOLEAN :
          /\ video' = IF opened THEN "opened" ELSE "failed"
          /\ pc' = IF opened THEN "read_first" ELSE "exited"
    /\ UNCHANGED <<config, run, tracker_name, tracker, framesRead, roi, ok, bbox,
                   esc, windows, f_out, frame_id, trackerLog, file, written, fileAtStart>>

\* main: the first video.read(); sys.exit() when it delivers no frame
ReadFirstFrame ==
    /\ pc = "read_first"
    /\ \E got \in BOOLEAN :
          /\ framesRead' = IF got THEN framesRead + 1 ELSE framesRead
          /\ pc' = IF got THEN "select_roi" ELSE "exited"
    /\ UNCHANGED <<config, run, tracker_name, tracker, video, roi, ok, bbox, esc,
                   windows, f_out, frame_id, trackerLog, file, written, fileAtStart>>

\* the ROI check with "and" for "or"
MutSelectROIAnd ==
    /\ pc = "select_roi"
    /\ \E b \in RoiBoxes :
          /\ roi' = b
          /\ pc' = IF b[3] = 0 /\ b[4] = 0 THEN "exited" ELSE "tracker_init"
    /\ windows' = windows \cup {WindowName}
    /\ UNCHANGED <<config, run, tracker_name, tracker, video, framesRead, ok, bbox,
                   esc, f_out, frame_id, trackerLog, file, written, fileAtStart>>

\* main: cv2.selectROI opens its window; sys.exit() on a box without area
SelectROI ==
    /\ pc = "select_roi"
    /\ \E b \in RoiBoxes :
          /\ roi' = b
          /\ pc' = IF b[3] = 0 \/ b[4] = 0 THEN "exited" ELSE "tracker_init"
    /\ windows' = windows \cup {WindowName}
    /\ UNCHANGED <<config, run, tracker_name, tracker, video, framesRead, ok, bbox,
                   esc, f_out, frame_id, trackerLog, file, written, fileAtStart>>

\* tracker.init given an empty box instead of the selected one
MutInitTrackerDefaultBox ==
    /\ pc = "tracker_init"
    /\ trackerLog' = Append(trackerLog,
                            [op |-> "init", frame |-> framesRead, box |-> <<0, 0, 0, 0>>])
    /\ pc' = "open_out"
    /\ UNCHANGED <<config, run, tracker_name, tracker, video, framesRead, roi, ok,
                   bbox, esc, windows, f_out, frame_id, file, written, fileAtStart>>

\* main: tracker.init(frame, bbox) on the first frame
InitTracker ==
    /\ pc = "tracker_init"
    /\ trackerLog' = Append(trackerLog,
                            [op |-> "init", frame |-> framesRead, box |-> roi])
    /\ pc' = "open_out"
    /\ UNCHANGED <<config, run, tracker_name, tracker, video, framesRead, roi, ok,
                   bbox, esc, windows, f_out, frame_id, file, written, fileAtStart>>

\* the header lines the script writes after opening the file
HeaderLines ==
    IF script = "ALL"
    THEN <<AlgorithmHeader(tracker_name), ColumnHeader>>
    ELSE <<ColumnHeader>>

\* the output file opened with "a" instead of "w"
MutOpenOutputAppend ==
    /\ pc = "open_out"
    /\ \E writable \in BOOLEAN :
          IF writable
          THEN /\ file' = [exists |-> TRUE, lines |-> file.lines \o HeaderLines]
               /\ written' = HeaderLines
               /\ f_out' = "open"
               /\ frame_id' = 1
               /\ pc' = "loop_read"
          ELSE /\ pc' = "exited"
               /\ UNCHANGED <<file, written, f_out, frame_id>>
    /\ UNCHANGED <<config, run, tracker_name, tracker, video, framesRead, roi, ok,
                   bbox, esc, windows, trackerLog, fileAtStart>>

\* main: open(OUTPUT_TXT, "w") and the header; sys.exit() on IOError;
\* then frame_id = 1
OpenOutput ==
    /\ pc = "open_out"
    /\ \E writable \in BOOLEAN :
          IF writable
          THEN /\ file' = [exists |-> TRUE, lines |-> HeaderLines]
               /\ written' = HeaderLines
               /\ f_out' = "open"
               /\ frame_id' = 1
               /\ pc' = "loop_read"
          ELSE /\ pc' = "exited"
               /\ UNCHANGED <<file, written, f_out, frame_id>>
    /\ UNCHANGED <<config, run, tracker_name, tracker, video, framesRead, roi, ok,
                   bbox, esc, windows, trackerLog, fileAtStart>>

\* the loop without frame_id += 1
MutReadFrameNoIncrement ==
    /\ pc = "loop_read"
    /\ \E got \in BOOLEAN :
          IF got /\ framesRead < MaxFrames
          THEN /\ framesRead' = framesRead + 1
               /\ frame_id' = frame_id
               /\ pc' = "track"
          ELSE /\ pc' = "release"
               /\ UNCHANGED <<framesRead, frame_id>>
    /\ UNCHANGED <<config, run, tracker_name, tracker, video, roi, ok, bbox, esc,
                   windows, f_out, trackerLog, file, written, fileAtStart>>

\* loop: video.read(); break when the source is exhausted, else frame_id += 1
ReadFrame ==
    /\ pc = "loop_read"
    /\ \E got \in BOOLEAN :
          IF got /\ framesRead < MaxFrames
          THEN /\ framesRead' = framesRead + 1
               /\ frame_id' = frame_id + 1
               /\ pc' = "track"
          ELSE /\ pc' = "release"
               /\ UNCHANGED <<framesRead, frame_id>>
    /\ UNCHANGED <<config, run, tracker_name, tracker, video, roi, ok, bbox, esc,
                   windows, f_out, trackerLog, file, written, fileAtStart>>

\* the row of a frame: the truncated box on success, the sentinel on failure
FrameRow(id, success, box) ==
    IF success
    THEN DataLine(<<id, IntTrunc(box[1]), IntTrunc(box[2]),
                    IntTrunc(box[3]), IntTrunc(box[4])>>)
    ELSE DataLine(<<id, -1, -1, -1, -1>>)

\* the loop writing no row for a frame whose update failed
MutTrackFrameNoSentinel ==
    /\ pc = "track"
    /\ \E success \in BOOLEAN, box \in UpdateBoxes :
          /\ ok' = success
          /\ bbox' = box
          /\ file' = IF success
                      THEN [file EXCEPT !.lines =
                               Append(@, FrameRow(frame_id, success, box))]
                      ELSE file
          /\ written' = IF success
                         THEN Append(written, FrameRow(frame_id, success, box))
                         ELSE written
    /\ trackerLog' = Append(trackerLog,
                            [op |-> "update", frame |-> framesRead, box |-> <<>>])
    /\ windows' = windows \cup {WindowName}
    /\ pc' = "poll_key"
    /\ UNCHANGED <<config, run, tracker_name, tracker, video, framesRead, roi, esc,
                   f_out, frame_id, fileAtStart>>

\* the loop calling tracker.init again after a failed update
MutTrackFrameReinit ==
    /\ pc = "track"
    /\ \E success \in BOOLEAN, box \in UpdateBoxes :
          /\ ok' = success
          /\ bbox' = box
          /\ file' = [file EXCEPT !.lines =
                          Append(@, FrameRow(frame_id, success, box))]
          /\ written' = Append(written, FrameRow(frame_id, success, box))
    /\ trackerLog' =
          LET log == Append(trackerLog,
                            [op |-> "update", frame |-> framesRead, box |-> <<>>])
          IN IF ok' THEN log
             ELSE Append(log, [op |-> "init", frame |-> framesRead, box |-> roi])
    /\ windows' = windows \cup {WindowName}
    /\ pc' = "poll_key"
    /\ UNCHANGED <<config, run, tracker_name, tracker, video, framesRead, roi, esc,
                   f_out, frame_id, fileAtStart>>

\* loop: tracker.update(frame), the row of the frame, cv2.imshow
TrackFrame ==
    /\ pc = "track"
    /\ \E success \in BOOLEAN, box \in UpdateBoxes :
          /\ ok' = success
          /\ bbox' = box
          /\ file' = [file EXCEPT !.lines =
                          Append(@, FrameRow(frame_id, success, box))]
          /\ written' = Append(written, FrameRow(frame_id, success, box))
    /\ trackerLog' = Append(trackerLog,
                            [op |-> "update", frame |-> framesRead, box |-> <<>>])
    /\ windows' = windows \cup {WindowName}
    /\ pc' = "poll_key"
    /\ UNCHANGED <<config, run, tracker_name, tracker, video, framesRead, roi, esc,
                   f_out, frame_id, fileAtStart>>

\* loop: cv2.waitKey(1) & 0xFF == 27 breaks the loop
PollKey ==
    /\ pc = "poll_key"
    /\ \E k \in Keys :
          /\ esc' = (LowByte(k) = 27)
          /\ pc' = IF esc' THEN "release" ELSE "loop_read"
    /\ UNCHANGED <<config, run, tracker_name, tracker, video, framesRead, roi, ok,
                   bbox, windows, f_out, frame_id, trackerLog, file, written, fileAtStart>>

\* main, after the loop: video.release(), destroyAllWindows(), f_out.close()
Release ==
    /\ pc = "release"
    /\ video' = "released"
    /\ windows' = {}
    /\ f_out' = "closed"
    /\ pc' = "done"
    /\ UNCHANGED <<config, run, tracker_name, tracker, framesRead, roi, ok, bbox,
                   esc, frame_id, trackerLog, file, written, fileAtStart>>

\* the script is invoked again, possibly with its configuration edited: a
\* new process over the same output path
Invoke ==
    /\ pc \in {"done", "exited"}
    /\ run < MaxRuns
    /\ run' = run + 1
    /\ pc' = "create"
    /\ tracker_name' = None
    /\ tracker' = None
    /\ video' = "none"
    /\ framesRead' = 0
    /\ roi' = <<0, 0, 0, 0>>
    /\ ok' = TRUE
    /\ bbox' = <<Float(0, 1), Float(0, 1), Float(0, 1), Float(0, 1)>>
    /\ esc' = FALSE
    /\ windows' = {}
    /\ f_out' = "none"
    /\ frame_id' = 0
    /\ trackerLog' = <<>>
    /\ written' = <<>>
    /\ fileAtStart' = file
    /\ IF script = "ALL"
       THEN SELECTED_INDEX' \in Indexes /\ UNCHANGED TRACKER_TYPE
       ELSE TRACKER_TYPE' \in TypeNames /\ UNCHANGED SELECTED_INDEX
    /\ UNCHANGED <<script, cv2lib, file>>

Next ==
    \/ CreateTracker
    \/ OpenVideo
    \/ ReadFirstFrame
    \/ SelectROI
    \/ InitTracker
    \/ OpenOutput
    \/ ReadFrame
    \/ TrackFrame
    \/ PollKey
    \/ Release
    \/ Invoke

Spec == Init /\ [][Next]_vars

\* ================================================================ claims
IsDataRow(l) == l.text = <<>>
DataRows(lines) == SelectSeq(lines, IsDataRow)
HeaderRows(lines) == SelectSeq(lines, LAMBDA l : ~IsDataRow(l))
IsPrefix(a, b) == Len(a) <= Len(b) /\ SubSeq(b, 1, Len(a)) = a
Sentinel(l) == SubSeq(l.fields, 2, Len(l.fields)) = <<-1, -1, -1, -1>>
EscPolled == esc
Exhausted == pc = "done" /\ ~EscPolled

C2_Released ==
    pc \in {"done", "exited"} =>
        video # "opened" /\ windows = {} /\ f_out # "open"

\* the request of the run cannot be served: the name is outside the set the
\* script enumerates, or the library lacks its constructor
Unsupported ==
    LET t == Upper(IF script = "ALL" THEN SelectedName ELSE TRACKER_TYPE) IN
    IF script = "ALL"
    THEN t \notin Range(TRACKER_TYPES) \/ t \notin cv2lib.top
    ELSE t # KCF \/ KCF \notin (cv2lib.top \cup cv2lib.legacy)

\* C3: once the factory has been asked, an unsupported request (or a None
\* handle) means the run has exited with the video source never opened, the
\* output file as the run found it and no call made to a tracker.
C3_Unsupported ==
    (pc # "create" /\ (Unsupported \/ tracker = None)) =>
        /\ pc = "exited"
        /\ video = "none"
        /\ f_out = "none"
        /\ file = fileAtStart
        /\ trackerLog = <<>>

\* C3 witness: ALL.py with SELECTED_INDEX out of range (so KCF is asked for)
\* on a library without KCF has exited, over a file left by an earlier run
C3_Witness ==
    /\ pc = "exited" /\ tracker = None /\ script = "ALL"
    /\ SELECTED_INDEX \notin 0..6
    /\ Len(DataRows(fileAtStart.lines)) >= 1

\* C4: a video source that cannot be opened ends the run with the output
\* file as the run found it, never opened, and no tracker.init call.
C4_VideoNotOpened ==
    video = "failed" =>
        /\ pc = "exited"
        /\ f_out = "none"
        /\ file = fileAtStart
        /\ trackerLog = <<>>

\* C4 witness: the source failed to open, over a file left by an earlier run
C4_Witness ==
    video = "failed" /\ pc = "exited" /\ Len(DataRows(fileAtStart.lines)) >= 1

\* the ROI selector has returned a box without area in this run
EmptyRoi == windows # {} /\ (roi[3] = 0 \/ roi[4] = 0)

\* C5: a ROI of width 0 or height 0 ends the run with the output file never
\* opened (neither created nor truncated) and tracker.init never called.
C5_EmptyRoi ==
    EmptyRoi =>
        /\ pc = "exited"
        /\ f_out = "none"
        /\ file = fileAtStart
        /\ trackerLog = <<>>

\* C5 witness: a box of width 0 and height 5 was selected, over a file left
\* by an earlier run
C5_Witness ==
    /\ EmptyRoi /\ roi = <<10, 20, 0, 5>> /\ pc = "exited"
    /\ Len(DataRows(fileAtStart.lines)) >= 1

\* x is the float v with its fractional part dropped
IsTruncationOf(x, v) ==
    IF v.n >= 0
    THEN x >= 0 /\ x * v.d <= v.n /\ v.n < (x + 1) * v.d
    ELSE x <= 0 /\ (x - 1) * v.d < v.n /\ v.n <= x * v.d

\* C6: every data row has five fields; the row of the frame just tracked
\* carries the frame id, then -1, -1, -1, -1 when that update reported
\* failure and the truncated coordinates of the box of that update when it
\* reported success.
C6_RowFormat ==
    /\ \A i \in 1..Len(file.lines) :
          IsDataRow(file.lines[i]) => Len(file.lines[i].fields) = 5
    /\ pc = "poll_key" =>
          LET row == file.lines[Len(file.lines)] IN
          /\ IsDataRow(row)
          /\ row.fields[1] = frame_id
          /\ ~ok => Sentinel(row)
          /\ ok => \A j \in 1..4 : IsTruncationOf(row.fields[j + 1], bbox[j])

\* C6 witness: a successful update returned a box with negative fractional
\* coordinates, after a failed update on the frame before
C6_Witness ==
    /\ pc = "poll_key" /\ ok /\ bbox[1].n < 0 /\ bbox[1].d > 1
    /\ Len(written) >= 2 /\ IsDataRow(written[Len(written) - 1])
    /\ Sentinel(written[Len(written) - 1])

\* C7: from the moment an invocation has opened the output file, the file
\* holds exactly the lines that invocation has written: nothing of an earlier
\* invocation remains.
C7_Truncated ==
    f_out # "none" => file.exists /\ file.lines = written

\* C7 witness: the second invocation has finished with one data row over a
\* file in which the first had left two
C7_Witness ==
    /\ run = 2 /\ pc = "done"
    /\ Len(DataRows(fileAtStart.lines)) = 2
    /\ Len(DataRows(file.lines)) = 1

InLoop == pc \in {"loop_read", "track", "poll_key"}
UpdateCall(n) == [op |-> "update", frame |-> n, box |-> <<>>]

\* C8: a failed update does not end the run: the key poll after it goes back
\* to reading unless ESC is polled; the loop is left only by a read that
\* delivers no frame or by a poll of ESC; and no step of the loop calls
\* tracker.init.
C8_FailureContinues ==
    [][ /\ (pc = "poll_key" /\ ~ok /\ ~esc') => pc' = "loop_read"
        /\ (pc = "track" /\ ~ok') => pc' = "poll_key"
        /\ (InLoop /\ ~InLoop') =>
              /\ pc' = "release"
              /\ \/ pc = "loop_read" /\ framesRead' = framesRead
                 \/ pc = "poll_key" /\ esc'
        /\ InLoop =>
              \/ trackerLog' = trackerLog
              \/ trackerLog' = Append(trackerLog, UpdateCall(framesRead))
      ]_vars

\* C8 witness: a frame is being tracked after the update of the frame before
\* it had failed
C8_Witness ==
    /\ pc = "track" /\ ~ok
    /\ Len(written) >= 1 /\ IsDataRow(written[Len(written)])
    /\ Sentinel(written[Len(written)])

\* C9: the tracker receives nothing before one init call, made on frame 1
\* with the selected box, and after it one update call per frame read after
\* the first, in order; the update calls are as many as the data rows the
\* run has written.
C9_TrackerCalls ==
    /\ trackerLog # <<>> =>
          /\ trackerLog[1] = [op |-> "init", frame |-> 1, box |-> roi]
          /\ roi[3] > 0 /\ roi[4] > 0
    /\ \A i \in 2..Len(trackerLog) : trackerLog[i] = UpdateCall(i)
    /\ pc \in {"open_out", "loop_read", "poll_key", "release", "done"} =>
          Len(trackerLog) = framesRead
    /\ pc = "track" => Len(trackerLog) = framesRead - 1
    /\ pc \in {"create", "open_video", "read_first", "select_roi",
               "tracker_init"} => trackerLog = <<>>
    /\ trackerLog # <<>> => Len(DataRows(written)) = Len(trackerLog) - 1
    /\ trackerLog = <<>> => written = <<>>

\* C9 witness: the third frame has been tracked
C9_Witness == pc = "poll_key" /\ Len(trackerLog) = 3 /\ framesRead = 3

\* C10: the k-th data row has frame id k + 1, whatever the tracking result;
\* and apart from the truncation by open, a step leaves the file as it is or
\* appends one line to it.
C10_AppendOnly ==
    /\ [](\A k \in 1..Len(DataRows(file.lines)) :
             DataRows(file.lines)[k].fields[1] = k + 1)
    /\ [][pc # "open_out" =>
             \/ file' = file
             \/ /\ IsPrefix(file.lines, file'.lines)
                /\ Len(file'.lines) = Len(file.lines) + 1]_vars

\* C10 witness: ESC was polled on the third frame and the run has ended with
\* the rows of frames 2 and 3, the first a failure and the second a success
C10_Witness ==
    /\ pc = "done" /\ EscPolled /\ framesRead = 3
    /\ Len(DataRows(file.lines)) = 2
    /\ Sentinel(DataRows(file.lines)[1])
    /\ ~Sentinel(DataRows(file.lines)[2])

====
